---- MODULE Spec2Model ----
(***************************************************************************)
(* The LLM pipeline component of spacy-llm (spacy_llm/pipeline/llm.py):     *)
(* LLMWrapper.__call__ and the generator LLMWrapper.pipe, run against the   *)
(* contracts of their collaborators (cache, task, prompt executor, error    *)
(* handler).  One consumer drives one streaming call and may make           *)
(* single-document calls whenever the generator is suspended.  Further      *)
(* specifications over the same variables cover make_llm, the serialization *)
(* methods, a run repeated with save_io set, and two streaming calls pulled *)
(* alternately.                                                             *)
(***************************************************************************)
EXTENDS Integers, Sequences, FiniteSets, TLC

\* ------------------------------------------------------------------ bounds
\* distinct documents (fingerprints)
NumDocs == 2
\* documents the consumer submits in a run: the stream's plus the single calls'
MaxDocs == 3
\* largest batch_size
MaxBatch == 3
\* exceptions the collaborators raise in a run
MaxFaults == 1

Docs == 1..NumDocs

\* ------------------------------------------------------------- documents
\* An input document is its fingerprint.  An annotated document: its
\* fingerprint (0 for no document), its annotation (<<0>> from an earlier run,
\* <<n>> from the n-th response of the executor) and its llm_io record under
\* the component's name (<<>> when there is none).
NoneDoc == [fp |-> 0, ann |-> <<>>, io |-> <<>>]

PriorDoc(d) == [fp |-> d, ann |-> <<0>>, io |-> <<>>]

\* a document cached by an earlier run that had save_io set
PriorDocIO(d) ==
    [fp |-> d, ann |-> <<0>>,
     io |-> <<[prompt |-> [type |-> "str", val |-> d],
               response |-> [type |-> "str", val |-> 0]]>>]

Name == "llm"

Self == "LLMWrapper"

\* ------------------------------------------------------------------ cache
CacheContains(c, d) == c[d] # NoneDoc

CacheGet(c, d) == c[d]

CacheAdd(c, doc) == [c EXCEPT ![doc.fp] = doc]

\* ---------------------------------------------------- task and executor
GeneratePrompts(docs) ==
    [k \in 1..Len(docs) |-> [type |-> "raw", val |-> docs[k]]]

Backend(prompts, base) ==
    [k \in 1..Len(prompts) |-> [type |-> "raw", val |-> base + k]]

\* one document per pair of zip(docs, responses)
ParseResponses(docs, responses) ==
    [k \in 1..(IF Len(docs) <= Len(responses) THEN Len(docs) ELSE Len(responses)) |->
        [fp |-> docs[k], ann |-> <<responses[k].val>>, io |-> <<>>]]

\* str(x) of a prompt or a response
Str(v) == [type |-> "str", val |-> v.val]

\* ------------------------------------------------------------------ state
VARIABLES
    task,             \* make_llm's argument task: "None" or "task"
    component,        \* what make_llm gave: "unbuilt" before it is called, Self,
                      \* or the exception it raised
    ser,              \* history: the last call of a serialization method
    cache,            \* self._cache: fingerprint -> annotated document or NoneDoc
    save_io,          \* self._save_io
    input,            \* the stream handed to pipe
    batch_size,       \* pipe's batch_size
    pc,               \* the generator: created, fetch (between batches), walk (in
                      \* the re-walk), yielded (suspended), done, raised
    pos,              \* documents minibatch has pulled from the stream
    doc_batch,        \* pipe's local doc_batch
    is_cached,        \* pipe's local is_cached
    modified_docs,    \* what is left of the iterator modified_docs
    saved_prompts,    \* what is left of the tee'd iterator saved_prompts
    saved_responses,  \* what is left of the tee'd iterator saved_responses
    i,                \* documents of doc_batch the re-walk has yielded or passed
    nresp,            \* responses the executor has produced
    ncalls,           \* single-document calls made
    events,           \* history: documents handed to the consumer
    log,              \* history: invocations of task and executor
    handlerLog,       \* history: invocations of the error handler
    adds,             \* history: cache inserts
    batches,          \* history: the batches minibatch produced
    faults,           \* history: exceptions raised
    ret,              \* history: the last single-document call
    escaped,          \* the exception that left the generator, "" if none
    first,            \* history: the run made before this one, when one was made
    other             \* a second streaming call on the component, suspended: its
                      \* frame and its histories (NoOther when there is none)

vars == <<task, component, ser, cache, save_io, input, batch_size, pc, pos, doc_batch, is_cached,
          modified_docs, saved_prompts, saved_responses, i, nresp, ncalls,
          events, log, handlerLog, adds, batches, faults, ret, escaped, first, other>>

pipeLocals == <<doc_batch, is_cached, modified_docs, saved_prompts, saved_responses, i>>

NoRet == [n |-> 0, fp |-> 0, hit |-> FALSE, kind |-> "none", doc |-> NoneDoc, exc |-> "",
          parsed |-> 0, cacheBefore |-> <<>>, cacheAfter |-> <<>>,
          logFrom |-> 0, logTo |-> 0, handlerFrom |-> 0, handlerTo |-> 0,
          addsFrom |-> 0, addsTo |-> 0]

NoSer == [op |-> "", arg |-> <<>>, ret |-> <<>>]

NoFirst == [on |-> FALSE, cache0 |-> <<>>, cache |-> <<>>, pc |-> "", escaped |-> "",
            events |-> <<>>, log |-> <<>>, handlerLog |-> <<>>, adds |-> <<>>,
            batches |-> <<>>, faults |-> <<>>]

NoOther == [input |-> <<>>, batch_size |-> 0, pc |-> "", pos |-> 0, doc_batch |-> <<>>,
            is_cached |-> <<>>, modified_docs |-> <<>>, saved_prompts |-> <<>>,
            saved_responses |-> <<>>, i |-> 0, events |-> <<>>, log |-> <<>>,
            handlerLog |-> <<>>, batches |-> <<>>, faults |-> <<>>, escaped |-> ""]

\* Fingerprints are interchangeable: a stream names its documents in the order of
\* their first occurrence (1, then 2, ...), which leaves out renamings only.
FirstOccurrenceOrder(s) ==
    \A k \in 1..Len(s) : s[k] = 1 \/ \E j \in 1..(k - 1) : s[j] = s[k] - 1

\* Likewise among the documents that are not in the stream, the cached ones
\* have the lower fingerprints.
CachedFirst(c, s) ==
    \A d, e \in Docs \ {s[k] : k \in 1..Len(s)} :
        (d < e /\ c[e] # NoneDoc) => c[d] # NoneDoc

Streams == {s \in UNION {[1..n -> Docs] : n \in 0..MaxDocs} : FirstOccurrenceOrder(s)}

\* nothing has run yet
Idle ==
    /\ pc = "created"
    /\ pos = 0
    /\ doc_batch = <<>>
    /\ is_cached = <<>>
    /\ modified_docs = <<>>
    /\ saved_prompts = <<>>
    /\ saved_responses = <<>>
    /\ i = 0
    /\ nresp = 0
    /\ ncalls = 0
    /\ events = <<>>
    /\ log = <<>>
    /\ handlerLog = <<>>
    /\ adds = <<>>
    /\ batches = <<>>
    /\ faults = <<>>
    /\ ret = NoRet
    /\ escaped = ""

\* What the consumer submits, and the histories, empty.  A batch_size beyond
\* the stream's length plus one adds no behaviour: the stream is one batch
\* from batch_size = Len(input) on.
Start ==
    /\ save_io \in BOOLEAN
    /\ input \in Streams
    /\ CachedFirst(cache, input)
    /\ batch_size \in 1..MaxBatch
    /\ batch_size <= Len(input) + 1
    /\ Idle

\* line 70-77: make_llm has returned the component
Made ==
    /\ task = "task"
    /\ component = Self
    /\ ser = NoSer

\* the cache holds documents of earlier runs made without save_io
Init ==
    /\ cache \in {[d \in Docs |-> IF d \in S THEN PriorDoc(d) ELSE NoneDoc] : S \in SUBSET Docs}
    /\ Start
    /\ Made
    /\ first = NoFirst
    /\ other = NoOther

\* make_llm has not been called yet; its arguments task, save_io and cache
InitMake ==
    /\ cache \in {[d \in Docs |-> IF d \in S THEN PriorDoc(d) ELSE NoneDoc] : S \in SUBSET Docs}
    /\ Start
    /\ task \in {"None", "task"}
    /\ component = "unbuilt"
    /\ ser = NoSer
    /\ first = NoFirst
    /\ other = NoOther

\* the cache holds documents of earlier runs made with save_io
InitIO ==
    /\ cache \in {[d \in Docs |-> IF d \in S THEN PriorDocIO(d) ELSE NoneDoc] : S \in SUBSET Docs}
    /\ Start
    /\ Made
    /\ first = NoFirst
    /\ other = NoOther

\* -------------------------------------------------------- history records
LogEntry(op, by, n, docs, arg, res, ok) ==
    [op |-> op, by |-> by, n |-> n, docs |-> docs, arg |-> arg, res |-> res, ok |-> ok]

Event(by, n, idx, doc, hit, checked) ==
    [by |-> by, n |-> n, idx |-> idx, fp |-> doc.fp, doc |-> doc, hit |-> hit,
     checked |-> checked]

Fault(by, n, step, exc) == [by |-> by, n |-> n, step |-> step, exc |-> exc]

Suspended == {"created", "yielded", "done", "raised"}

\* ------------------------------------------------ LLMWrapper.__call__
CallOutcomes ==
    {"ok", "gen_raises", "backend_raises", "parse_raises", "zero", "two", "add_raises"}

CallExc(o) ==
    CASE o = "gen_raises" -> "TaskError"
      [] o = "backend_raises" -> "BackendError"
      [] o = "parse_raises" -> "ParseError"
      [] o \in {"zero", "two"} -> "AssertionError"
      [] o = "add_raises" -> "CacheError"
      [] OTHER -> ""

\* line 118-119, 127-128: the document is in the cache
CallHit(d, cached) ==
    /\ ret' = [n |-> ncalls + 1, fp |-> d, hit |-> TRUE, kind |-> "returned",
               doc |-> cached, exc |-> "", parsed |-> 0,
               cacheBefore |-> cache, cacheAfter |-> cache,
               logFrom |-> Len(log), logTo |-> Len(log),
               handlerFrom |-> Len(handlerLog), handlerTo |-> Len(handlerLog),
               addsFrom |-> Len(adds), addsTo |-> Len(adds)]
    /\ events' = Append(events, Event("call", ncalls + 1, 0, cached, TRUE, Len(events)))
    /\ UNCHANGED <<cache, log, adds, faults, nresp>>

\* an assertion that lets more than one document through
AssertSomeDoc(docs) == Len(docs) >= 1 /\ docs[1] # NoneDoc

\* line 123-124: the two assertions on what parse_responses yielded
AssertOneDoc(docs) == Len(docs) = 1 /\ docs[1] # NoneDoc

\* the parsed document is returned without being inserted
CallInsertsNever(o, docs) == FALSE

\* the insert is made although the task or the executor raised
CallInsertsAnyway(o, docs) == Len(docs) = 1

\* line 120-125: line 125 is reached when nothing raised and the assertions
\* passed, and the insert is made unless the cache raises
CallInserts(o, docs) ==
    /\ o \notin {"gen_raises", "backend_raises", "parse_raises", "add_raises"}
    /\ AssertOneDoc(docs)

\* line 120-128: the document is not in the cache; o is what the collaborators do
CallMiss(d, o) ==
    LET n == ncalls + 1
        prompts == GeneratePrompts(<<d>>)
        responses == Backend(prompts, nresp)
        parsed == ParseResponses(<<d>>, responses)
        docs == CASE o = "zero" -> <<>>
                  [] o = "two" -> parsed \o parsed
                  [] OTHER -> parsed
        genE == LogEntry("generate_prompts", "call", n, <<d>>, <<>>, prompts, o # "gen_raises")
        backE == LogEntry("backend", "call", n, <<>>, prompts, responses, o # "backend_raises")
        parseE == LogEntry("parse_responses", "call", n, <<d>>, responses, docs, o # "parse_raises")
        newLog == IF o = "gen_raises" THEN <<genE>>
                  ELSE IF o = "backend_raises" THEN <<genE, backE>>
                  ELSE <<genE, backE, parseE>>
        passed == /\ o \notin {"gen_raises", "backend_raises", "parse_raises", "add_raises"}
                  /\ AssertOneDoc(docs)
        cacheAfter == IF CallInserts(o, docs) THEN CacheAdd(cache, docs[1]) ELSE cache
        newAdds == IF CallInserts(o, docs)
                   THEN <<[by |-> "call", n |-> n, doc |-> docs[1]]>> ELSE <<>>
    IN  /\ log' = log \o newLog
        /\ nresp' = IF o \in {"gen_raises", "backend_raises"} THEN nresp ELSE nresp + 1
        /\ cache' = cacheAfter
        /\ adds' = adds \o newAdds
        /\ events' = IF passed
                     THEN Append(events, Event("call", n, 0, docs[1], FALSE, Len(events)))
                     ELSE events
        /\ faults' = IF passed THEN faults
                     ELSE Append(faults, Fault("call", n, o, CallExc(o)))
        /\ ret' = [n |-> n, fp |-> d, hit |-> FALSE,
                   kind |-> IF passed THEN "returned" ELSE "raised",
                   doc |-> IF passed THEN docs[1] ELSE NoneDoc,
                   exc |-> CallExc(o), parsed |-> Len(docs),
                   cacheBefore |-> cache, cacheAfter |-> cacheAfter,
                   logFrom |-> Len(log), logTo |-> Len(log) + Len(newLog),
                   handlerFrom |-> Len(handlerLog), handlerTo |-> Len(handlerLog),
                   addsFrom |-> Len(adds), addsTo |-> Len(adds) + Len(newAdds)]

\* d has not been in a stream nor in a single-document call
Untouched(d) ==
    /\ \A k \in 1..Len(input) : input[k] # d
    /\ \A k \in 1..Len(other.input) : other.input[k] # d
    /\ \A k \in 1..Len(log) : ~(log[k].by = "call" /\ log[k].docs = <<d>>)
    /\ \A k \in 1..Len(events) : ~(events[k].by = "call" /\ events[k].fp = d)
    /\ \A k \in 1..Len(other.log) :
        ~(other.log[k].by = "call" /\ other.log[k].docs = <<d>>)
    /\ \A k \in 1..Len(other.events) :
        ~(other.events[k].by = "call" /\ other.events[k].fp = d)

\* Of the untouched documents that are alike (cached or not), which are
\* interchangeable, the consumer submits the one of least fingerprint.
LeastAlike(d) ==
    Untouched(d) =>
        \A e \in 1..(d - 1) :
            ~(Untouched(e) /\ ((cache[e] = NoneDoc) <=> (cache[d] = NoneDoc)))

Call(d) ==
    /\ component = Self
    /\ pc \in Suspended
    /\ LeastAlike(d)
    /\ Len(input) + Len(other.input) + ncalls < MaxDocs
    /\ ncalls' = ncalls + 1
    /\ LET cached == CacheGet(cache, d)
       IN  IF cached # NoneDoc
           THEN CallHit(d, cached)
           ELSE \E o \in CallOutcomes :
                    /\ o # "ok" => Len(faults) + Len(other.faults) < MaxFaults
                    /\ CallMiss(d, o)
    /\ UNCHANGED <<save_io, input, batch_size, pc, pos, pipeLocals, handlerLog,
                   batches, escaped, first, other, task, component, ser>>

\* ------------------------------------------------------ LLMWrapper.pipe
\* the whole rest of the stream is taken as one batch
MinibatchAll(stream, p, size) == SubSeq(stream, p + 1, Len(stream))

\* spacy.util.minibatch(stream, batch_size): the next items of the stream
Minibatch(stream, p, size) ==
    SubSeq(stream, p + 1, IF p + size <= Len(stream) THEN p + size ELSE Len(stream))

\* a partition that takes every document for a miss
IsCachedNever(batch) == [k \in 1..Len(batch) |-> FALSE]

\* line 142
IsCached(batch) == [k \in 1..Len(batch) |-> CacheContains(cache, batch[k])]

\* the cache is asked again when the re-walk reaches the document
CachedDocNow(flags, p) == CacheContains(cache, doc_batch[p])

\* line 159-160: the flag zip pairs with the p-th document of the batch
CachedDoc(flags, p) == flags[p]

\* the whole batch instead of its misses
NonCachedDocBatchAll(batch, flags) == batch

RECURSIVE NonCachedDocBatch(_, _)
\* line 143-145
NonCachedDocBatch(batch, flags) ==
    IF batch = <<>> \/ flags = <<>> THEN <<>>
    ELSE (IF ~Head(flags) THEN <<Head(batch)>> ELSE <<>>)
         \o NonCachedDocBatch(Tail(batch), Tail(flags))

\* the copy kept for the record has used up the iterator that goes on
TeeDrains(it) == <<<<>>, it>>

\* the copy kept for the record starts one item late
TeeSkewed(it) == <<it, IF it = <<>> THEN it ELSE Tail(it) \o <<Head(it)>>>>

\* line 149, 153: itertools.tee(it), two iterators over the items of it
Tee(it) == <<it, it>>

\* line 167-170
SaveIO(doc, prompt, response) ==
    [doc EXCEPT !.io = <<[prompt |-> Str(prompt), response |-> Str(response)]>>]

\* the parsed document is emitted without being inserted
WalkAddSkip(c, doc) == c

\* the insert drops the entries the cache had
WalkAddEvicts(c, doc) == [d \in Docs |-> IF d = doc.fp THEN doc ELSE NoneDoc]

\* the document is inserted without its llm_io record
WalkAddBare(c, doc) == CacheAdd(c, [doc EXCEPT !.io = <<>>])

\* line 172
WalkAdd(c, doc) == CacheAdd(c, doc)

\* the handler is given the batch's cache misses only
HandlerCallMisses(n, batch, exc, dec) ==
    [name |-> Name, component |-> Self,
     batch |-> NonCachedDocBatch(batch, IsCached(batch)), exc |-> exc, n |-> n,
     decision |-> dec]

\* line 175: what the error handler is called with (dec is what it then does)
HandlerCall(n, batch, exc, dec) ==
    [name |-> Name, component |-> Self, batch |-> batch, exc |-> exc, n |-> n,
     decision |-> dec]

Decisions == {"suppress", "reraise"}

\* the loop goes on to the next batch although the handler re-raised
HandleGoesOn(n, batch, step, exc, dec) ==
    /\ handlerLog' = Append(handlerLog, HandlerCall(n, batch, exc, dec))
    /\ faults' = Append(faults, Fault("pipe", n, step, exc))
    /\ pc' = "fetch"
    /\ escaped' = IF dec = "reraise" THEN exc ELSE escaped

\* line 174-175: the exception of batch n is caught and handed to the handler
Handle(n, batch, step, exc, dec) ==
    /\ handlerLog' = Append(handlerLog, HandlerCall(n, batch, exc, dec))
    /\ faults' = Append(faults, Fault("pipe", n, step, exc))
    /\ pc' = IF dec = "reraise" THEN "raised" ELSE "fetch"
    /\ escaped' = IF dec = "reraise" THEN exc ELSE escaped

BatchOutcomes == {"ok", "contains_raises", "gen_raises", "backend_raises", "parse_raises"}

BatchExc(o) ==
    CASE o = "contains_raises" -> "CacheError"
      [] o = "gen_raises" -> "TaskError"
      [] o = "backend_raises" -> "BackendError"
      [] o = "parse_raises" -> "ParseError"
      [] OTHER -> ""

\* line 137-157: the generator, started or past a batch, takes the next batch,
\* partitions it and calls task and executor
Fetch ==
    /\ component = Self
    /\ pc \in {"created", "fetch"}
    /\ IF pos = Len(input)
       THEN /\ pc' = "done"
            /\ UNCHANGED <<pos, pipeLocals, nresp, log, handlerLog, batches, faults, escaped>>
       ELSE \E o \in BatchOutcomes, dec \in Decisions :
            LET batch == Minibatch(input, pos, batch_size)
                n == Len(batches) + 1
                flags == IsCached(batch)
                noncached_doc_batch == NonCachedDocBatch(batch, flags)
                generated == GeneratePrompts(noncached_doc_batch)
                prompts == IF save_io THEN Tee(generated)[1] ELSE generated
                returned == Backend(prompts, nresp)
                responses == IF save_io THEN Tee(returned)[1] ELSE returned
                parsed == ParseResponses(noncached_doc_batch, responses)
                genE == LogEntry("generate_prompts", "pipe", n, noncached_doc_batch, <<>>,
                                 generated, o # "gen_raises")
                backE == LogEntry("backend", "pipe", n, <<>>, prompts, returned,
                                  o # "backend_raises")
                parseE == LogEntry("parse_responses", "pipe", n, noncached_doc_batch,
                                   responses, parsed, o # "parse_raises")
            IN  /\ o # "ok" => Len(faults) + Len(other.faults) < MaxFaults
                /\ o \in {"ok", "contains_raises"} => dec = "suppress"
                /\ pos' = pos + Len(batch)
                /\ doc_batch' = batch
                /\ batches' = Append(batches,
                       [docs |-> batch, first |-> pos,
                        snap |-> {d \in Docs : cache[d] # NoneDoc},
                        seen |-> Len(events)])
                /\ IF o = "contains_raises"
                   THEN /\ pc' = "raised"
                        /\ escaped' = BatchExc(o)
                        /\ faults' = Append(faults, Fault("pipe", n, o, BatchExc(o)))
                        /\ UNCHANGED <<is_cached, modified_docs, saved_prompts,
                                       saved_responses, i, nresp, log, handlerLog>>
                   ELSE /\ is_cached' = flags
                        /\ log' = log \o (IF o = "gen_raises" THEN <<genE>>
                                          ELSE IF o = "backend_raises" THEN <<genE, backE>>
                                          ELSE <<genE, backE, parseE>>)
                        /\ nresp' = IF o \in {"gen_raises", "backend_raises"} THEN nresp
                                    ELSE nresp + Len(prompts)
                        /\ IF o = "ok"
                           THEN /\ modified_docs' = parsed
                                /\ saved_prompts' = IF save_io THEN Tee(generated)[2]
                                                    ELSE saved_prompts
                                /\ saved_responses' = IF save_io THEN Tee(returned)[2]
                                                      ELSE saved_responses
                                /\ i' = 0
                                /\ pc' = "walk"
                                /\ UNCHANGED <<handlerLog, faults, escaped>>
                           ELSE /\ Handle(n, batch, o, BatchExc(o), dec)
                                /\ UNCHANGED <<modified_docs, saved_prompts,
                                               saved_responses, i>>
    /\ UNCHANGED <<cache, save_io, input, batch_size, ncalls, events, adds, ret, first,
                   other, task, component, ser>>

\* line 159-173: the generator, in the re-walk of the batch (resumed by the
\* consumer when suspended at a yield), goes to the next document and yields it
Walk ==
    /\ component = Self
    /\ pc \in {"walk", "yielded"}
    /\ IF i + 1 > Len(doc_batch)
       THEN /\ pc' = "fetch"
            /\ UNCHANGED <<cache, modified_docs, saved_prompts, saved_responses, i,
                           events, handlerLog, adds, faults, escaped>>
       ELSE \E o \in {"ok", "raises", "add_raises"}, dec \in Decisions :
            LET n == Len(batches)
                p == i + 1
                idx == batches[n].first + p
                seen == batches[n].seen
            IN  /\ o # "ok" => Len(faults) + Len(other.faults) < MaxFaults
                /\ o = "ok" => dec = "suppress"
                /\ o = "add_raises" => ~CachedDoc(is_cached, p)
                /\ IF CachedDoc(is_cached, p)
                   THEN LET doc == CacheGet(cache, doc_batch[p])
                        IN  IF o = "raises" \/ doc = NoneDoc
                            THEN /\ Handle(n, doc_batch, "lookup",
                                           IF o = "raises" THEN "CacheError"
                                           ELSE "AssertionError", dec)
                                 /\ UNCHANGED <<cache, modified_docs, saved_prompts,
                                                saved_responses, i, events, adds>>
                            ELSE /\ events' = Append(events,
                                                     Event("pipe", n, idx, doc, TRUE, seen))
                                 /\ pc' = "yielded"
                                 /\ i' = p
                                 /\ UNCHANGED <<cache, modified_docs, saved_prompts,
                                                saved_responses, handlerLog, adds,
                                                faults, escaped>>
                   ELSE IF \/ o = "raises"
                           \/ modified_docs = <<>>
                           \/ (save_io /\ (saved_prompts = <<>> \/ saved_responses = <<>>))
                        THEN /\ Handle(n, doc_batch, "next",
                                       IF o = "raises" THEN "NextError"
                                       ELSE "StopIteration", dec)
                             /\ UNCHANGED <<cache, modified_docs, saved_prompts,
                                            saved_responses, i, events, adds>>
                        ELSE LET parsed == Head(modified_docs)
                                 doc == IF save_io
                                        THEN SaveIO(parsed, Head(saved_prompts),
                                                    Head(saved_responses))
                                        ELSE parsed
                             IN  /\ modified_docs' = Tail(modified_docs)
                                 /\ saved_prompts' = IF save_io THEN Tail(saved_prompts)
                                                     ELSE saved_prompts
                                 /\ saved_responses' = IF save_io THEN Tail(saved_responses)
                                                       ELSE saved_responses
                                 /\ IF o = "add_raises"
                                    THEN /\ Handle(n, doc_batch, "add", "CacheError", dec)
                                         /\ UNCHANGED <<cache, i, events, adds>>
                                    ELSE /\ cache' = WalkAdd(cache, doc)
                                         /\ adds' = Append(adds,
                                                [by |-> "pipe", n |-> n, doc |-> doc])
                                         /\ events' = Append(events,
                                                Event("pipe", n, idx, doc, FALSE, seen))
                                         /\ pc' = "yielded"
                                         /\ i' = p
                                         /\ UNCHANGED <<handlerLog, faults, escaped>>
    /\ UNCHANGED <<save_io, input, batch_size, pos, doc_batch, is_cached, nresp,
                   ncalls, log, batches, ret, first, other, task, component, ser>>

Next ==
    \/ \E d \in Docs : Call(d)
    \/ Fetch
    \/ Walk

Spec == Init /\ [][Next]_vars

SpecIO == InitIO /\ [][Next]_vars

\* ------------------------------------------- make_llm and serialization
processing == <<cache, save_io, input, batch_size, pc, pos, pipeLocals, nresp, ncalls,
                events, log, handlerLog, adds, batches, faults, ret, escaped, first,
                other>>

\* the component is built although no task was given
MakeLLMUnchecked ==
    /\ component = "unbuilt"
    /\ component' = Self
    /\ UNCHANGED <<task, ser, processing>>

\* line 63-77; validate_types (line 68) accepts task and backend or raises
MakeLLM ==
    /\ component = "unbuilt"
    /\ IF task = "None"
       THEN component' = "ValueError"
       ELSE \E valid \in BOOLEAN :
                component' = IF valid THEN Self ELSE "ValidationError"
    /\ UNCHANGED <<task, ser, processing>>

\* the methods are called on the component between processing operations
Serializable == component = Self /\ pc \in Suspended

\* the byte strings and paths handed to the methods
SerData == {<<>>, <<1>>}

\* from_bytes takes the component's cache from the data
FromBytesLoads(c, data) == [d \in Docs |-> IF d \in {data[k] : k \in 1..Len(data)} THEN PriorDoc(d) ELSE NoneDoc]

\* line 185-192: what from_bytes leaves of the cache
FromBytesCache(c, data) == c

\* line 177-183
ToBytes ==
    /\ Serializable
    /\ ser' = [op |-> "to_bytes", arg |-> <<>>, ret |-> <<>>]
    /\ UNCHANGED <<task, component, processing>>

\* line 185-192
FromBytes ==
    /\ Serializable
    /\ \E data \in SerData :
        /\ ser' = [op |-> "from_bytes", arg |-> data, ret |-> <<component>>]
        /\ cache' = FromBytesCache(cache, data)
    /\ UNCHANGED <<task, component, save_io, input, batch_size, pc, pos, pipeLocals,
                   nresp, ncalls, events, log, handlerLog, adds, batches, faults, ret,
                   escaped, first, other>>

\* line 194-201
ToDisk ==
    /\ Serializable
    /\ \E path \in SerData \ {<<>>} :
        ser' = [op |-> "to_disk", arg |-> path, ret |-> <<"None">>]
    /\ UNCHANGED <<task, component, processing>>

\* line 203-211
FromDisk ==
    /\ Serializable
    /\ \E path \in SerData \ {<<>>} :
        ser' = [op |-> "from_disk", arg |-> path, ret |-> <<component>>]
    /\ UNCHANGED <<task, component, processing>>

\* make_llm, then the component at work
NextMake ==
    \/ MakeLLM
    \/ \E d \in Docs : Call(d)
    \/ Fetch
    \/ Walk

SpecMake == InitMake /\ [][NextMake]_vars

\* the serialization methods called before, during and after a streaming call
NextSer ==
    \/ ToBytes
    \/ FromBytes
    \/ ToDisk
    \/ FromDisk
    \/ Fetch
    \/ Walk

SpecSer == Init /\ [][NextSer]_vars

\* ------------------------------- the same stream with and without save_io
\* The streaming call is run with save_io unset, then again with save_io set,
\* on the same stream, batch size and initial cache; the collaborators
\* (cache, task, executor, error handler) raise and decide in the second run
\* where they did in the first.
InitTwin ==
    /\ cache \in {[d \in Docs |-> IF d \in S THEN PriorDoc(d) ELSE NoneDoc] : S \in SUBSET Docs}
    /\ Start
    /\ Made
    /\ save_io = FALSE
    /\ first = [NoFirst EXCEPT !.cache0 = cache]
    /\ other = NoOther

\* the first run is over: its history is kept and the second run is set up
Rerun ==
    /\ ~first.on
    /\ pc \in {"done", "raised"}
    /\ first' = [on |-> TRUE, cache0 |-> first.cache0, cache |-> cache, pc |-> pc,
                 escaped |-> escaped, events |-> events, log |-> log,
                 handlerLog |-> handlerLog, adds |-> adds, batches |-> batches,
                 faults |-> faults]
    /\ cache' = first.cache0
    /\ save_io' = TRUE
    /\ pc' = "created"
    /\ pos' = 0
    /\ doc_batch' = <<>>
    /\ is_cached' = <<>>
    /\ modified_docs' = <<>>
    /\ saved_prompts' = <<>>
    /\ saved_responses' = <<>>
    /\ i' = 0
    /\ nresp' = 0
    /\ events' = <<>>
    /\ log' = <<>>
    /\ handlerLog' = <<>>
    /\ adds' = <<>>
    /\ batches' = <<>>
    /\ faults' = <<>>
    /\ escaped' = ""
    /\ UNCHANGED <<input, batch_size, ncalls, ret, other, task, component, ser>>

\* documents of batch n handed out, in the history evs
EmittedIn(evs, n) == Cardinality({k \in 1..Len(evs) : evs[k].by = "pipe" /\ evs[k].n = n})

\* The collaborators are the same in both runs: the second run's exceptions
\* and handler decisions are the first run's, in order, and the second run
\* has not gone past the place of an exception of the first run without it.
SameCollaborators ==
    first.on =>
        /\ Len(faults) <= Len(first.faults)
        /\ \A k \in 1..Len(faults) :
            /\ faults[k] = first.faults[k]
            /\ EmittedIn(events, faults[k].n) = EmittedIn(first.events, faults[k].n)
        /\ Len(handlerLog) <= Len(first.handlerLog)
        /\ \A h \in 1..Len(handlerLog) :
            handlerLog[h].decision = first.handlerLog[h].decision
        /\ \A k \in 1..Len(log) : k <= Len(first.log) => log[k].ok = first.log[k].ok
        /\ Len(faults) < Len(first.faults) =>
            LET f == first.faults[Len(faults) + 1]
            IN  /\ Len(batches) <= f.n
                /\ Len(batches) = f.n =>
                    /\ f.step = "contains_raises" =>
                        \A k \in 1..Len(log) : log[k].n # f.n
                    /\ f.step \in {"lookup", "next", "add"} =>
                        /\ EmittedIn(events, f.n) <= EmittedIn(first.events, f.n)
                        /\ pc \notin {"fetch", "done"}

NextTwin ==
    \/ Fetch /\ SameCollaborators'
    \/ Walk /\ SameCollaborators'
    \/ Rerun

SpecTwin == InitTwin /\ [][NextTwin]_vars

\* --------------------------- two streaming calls on the same component
\* The consumer holds two generators of pipe, made on the same component (one
\* cache, one task, one executor), and pulls from either; it may make
\* single-document calls in between.  The variables of the streaming call are
\* those of the generator the consumer pulls from; the other generator,
\* suspended, is kept in other.

\* a generator as yet untouched, over stream s
NewGen(s, size) == [NoOther EXCEPT !.input = s, !.batch_size = size, !.pc = "created"]

\* the suspended generator keeps the iterator of parsed documents of the
\* generator run last
FrameSharedResults ==
    [input |-> input, batch_size |-> batch_size, pc |-> pc, pos |-> pos,
     doc_batch |-> doc_batch, is_cached |-> is_cached, modified_docs |-> <<>>,
     saved_prompts |-> saved_prompts, saved_responses |-> saved_responses, i |-> i,
     events |-> events, log |-> log, handlerLog |-> handlerLog, batches |-> batches,
     faults |-> faults, escaped |-> escaped]

\* line 130-175: what a suspended generator of pipe holds, its arguments and
\* locals, with the histories kept of it
Frame ==
    [input |-> input, batch_size |-> batch_size, pc |-> pc, pos |-> pos,
     doc_batch |-> doc_batch, is_cached |-> is_cached, modified_docs |-> modified_docs,
     saved_prompts |-> saved_prompts, saved_responses |-> saved_responses, i |-> i,
     events |-> events, log |-> log, handlerLog |-> handlerLog, batches |-> batches,
     faults |-> faults, escaped |-> escaped]

\* two generators made, none pulled from yet; save_io is set, so that each
\* generator holds all three of its iterators; the second stream may be empty
InitTwo ==
    /\ cache \in {[d \in Docs |-> IF d \in S THEN PriorDoc(d) ELSE NoneDoc] : S \in SUBSET Docs}
    /\ save_io = TRUE
    /\ \E s \in Streams, k \in 1..MaxDocs, size \in 1..MaxBatch :
        /\ k <= Len(s)
        /\ size <= Len(s) - k + 1
        /\ input = SubSeq(s, 1, k)
        /\ other = NewGen(SubSeq(s, k + 1, Len(s)), size)
    /\ CachedFirst(cache, input \o other.input)
    /\ batch_size \in 1..MaxBatch
    /\ batch_size <= Len(input) + 1
    /\ Idle
    /\ Made
    /\ first = NoFirst

\* the consumer turns to the other generator, which has not ended; the one
\* it leaves stays suspended where it is
Switch ==
    /\ component = Self
    /\ pc \in Suspended
    /\ other.pc \in {"created", "yielded"}
    /\ other' = Frame
    /\ input' = other.input
    /\ batch_size' = other.batch_size
    /\ pc' = other.pc
    /\ pos' = other.pos
    /\ doc_batch' = other.doc_batch
    /\ is_cached' = other.is_cached
    /\ modified_docs' = other.modified_docs
    /\ saved_prompts' = other.saved_prompts
    /\ saved_responses' = other.saved_responses
    /\ i' = other.i
    /\ events' = other.events
    /\ log' = other.log
    /\ handlerLog' = other.handlerLog
    /\ batches' = other.batches
    /\ faults' = other.faults
    /\ escaped' = other.escaped
    /\ UNCHANGED <<cache, save_io, nresp, ncalls, adds, ret, first, task, component, ser>>

\* The collaborators raise nothing and the task parses one document per
\* response: an exception there is comes from the streaming call's own steps
\* (a hit lookup that finds no document, a parsed result that is missing).
CollaboratorsBehave ==
    \A k \in 1..Len(faults) :
        faults[k].by = "pipe" /\ faults[k].exc \in {"AssertionError", "StopIteration"}

NextTwo ==
    \/ \E d \in Docs : Call(d) /\ CollaboratorsBehave'
    \/ Fetch /\ CollaboratorsBehave'
    \/ Walk /\ CollaboratorsBehave'
    \/ Switch

SpecTwo == InitTwo /\ [][NextTwo]_vars

\* ------------------------------------------------------------ the claims
IsPipe(e) == e.by = "pipe"

\* what the streaming call has handed to the consumer, in order
Out == SelectSeq(events, IsPipe)

PipeLog == SelectSeq(log, IsPipe)

PipeFaults == SelectSeq(faults, IsPipe)

RECURSIVE MissSeq(_, _)
\* the documents of docs that are not in the set snap, in order
MissSeq(docs, snap) ==
    IF docs = <<>> THEN <<>>
    ELSE (IF Head(docs) \in snap THEN <<>> ELSE <<Head(docs)>>) \o MissSeq(Tail(docs), snap)

\* the batch and the position in it of the idx-th input document
MissRank(n, idx) ==
    Cardinality({q \in 1..(idx - batches[n].first) : batches[n].docs[q] \notin batches[n].snap})

RECURSIVE SumLen(_)
SumLen(ss) == IF ss = <<>> THEN 0 ELSE Len(Head(ss)) + SumLen(Tail(ss))

Entries(op, n) == {k \in 1..Len(log) : log[k].by = "pipe" /\ log[k].op = op /\ log[k].n = n}

\* C1: when no batch fails, the streaming call emits one document per input
\* document, in input order, the k-th being the annotated form of the k-th
\* input: the cache's entry on a hit, else the document parsed from the
\* response to that document's own prompt.
C1_OrderPreserved ==
    PipeFaults = <<>> =>
        LET out == Out
        IN
        /\ Len(out) <= Len(input)
        /\ pc = "done" => Len(out) = Len(input)
        /\ \A k \in 1..Len(out) :
            LET e == out[k]
                b == batches[e.n]
            IN  /\ e.idx = k
                /\ e.doc.fp = input[k]
                /\ e.doc.ann # <<>>
                /\ e.hit <=> input[k] \in b.snap
                /\ e.hit => e.doc = cache[input[k]]
                /\ ~e.hit =>
                     \E j \in Entries("backend", e.n) :
                        LET r == MissRank(e.n, k)
                        IN  /\ log[j].arg[r] = GeneratePrompts(<<input[k]>>)[1]
                            /\ e.doc.ann = <<log[j].res[r].val>>

\* a finished stream of three with a hit followed by a miss in one batch
C1_Witness ==
    /\ pc = "done"
    /\ PipeFaults = <<>>
    /\ Len(Out) = 3
    /\ \E k \in 1..2 : Out[k].hit /\ ~Out[k + 1].hit /\ Out[k].n = Out[k + 1].n

\* C2: every invocation of generate_prompts, the executor and parse_responses
\* by the streaming call gets exactly the documents of its batch that were
\* absent from the cache at partition time, in order (their prompts, for the
\* executor), each at most once per batch; over a stream without failure the
\* prompts handed to the executor number the cache misses.
C2_MissSubsequenceOnly ==
    /\ \A k \in 1..Len(log) :
        log[k].by = "pipe" =>
            LET e == log[k]
                M == MissSeq(batches[e.n].docs, batches[e.n].snap)
            IN  /\ e.op = "generate_prompts" => e.docs = M
                /\ e.op = "backend" => e.arg = GeneratePrompts(M)
                /\ e.op = "parse_responses" => e.docs = M
                /\ Cardinality(Entries(e.op, e.n)) = 1
    /\ (pc = "done" /\ PipeFaults = <<>>) =>
        LET plog == PipeLog
        IN  SumLen([k \in 1..Len(plog) |->
                        IF plog[k].op = "backend" THEN plog[k].arg ELSE <<>>])
          = SumLen([n \in 1..Len(batches) |-> MissSeq(batches[n].docs, batches[n].snap)])

\* the executor has been given a proper, non-empty part of a batch and, for
\* another batch, the empty sequence
C2_Witness ==
    /\ pc = "done"
    /\ \E k \in 1..Len(log) :
        /\ log[k].by = "pipe" /\ log[k].op = "backend"
        /\ log[k].arg # <<>>
        /\ Len(log[k].arg) < Len(batches[log[k].n].docs)
    /\ \E k \in 1..Len(log) :
        log[k].by = "pipe" /\ log[k].op = "backend" /\ log[k].arg = <<>>

\* the executor is not invoked for document d in the pass that made event e
NoExecutorFor(e) ==
    IF e.by = "call"
    THEN \A k \in 1..Len(log) : ~(log[k].by = "call" /\ log[k].n = e.n)
    ELSE \A k \in Entries("backend", e.n) :
            \A r \in 1..Len(log[k].arg) : log[k].arg[r] # GeneratePrompts(<<e.fp>>)[1]

Earlier(j) == {k \in 1..(j - 1) : events[k].fp = events[j].fp}

Latest(S) == CHOOSE k \in S : \A q \in S : q <= k

\* C3 as stated: of two passes over the same document, by calls or batches in
\* any combination and also within one batch, the second is a cache hit that
\* returns the first pass's document with no executor invocation for it.
C3_Original ==
    \A j \in 1..Len(events) :
        \A k \in Earlier(j) :
            /\ events[j].hit
            /\ events[j].doc = events[k].doc
            /\ NoExecutorFor(events[j])

\* C3 amended: a pass over a document whose cache check (the call's lookup, the
\* batch's partition) comes after an earlier pass handed that document out is
\* a cache hit, returns the document most recently handed out for it, and
\* invokes the executor for it not at all.
C3_IdempotentAfterInsert ==
    \A j \in 1..Len(events) :
        (\E k \in Earlier(j) : k <= events[j].checked) =>
            /\ events[j].hit
            /\ events[j].doc = events[Latest(Earlier(j))].doc
            /\ NoExecutorFor(events[j])

\* a document freshly parsed by one entry point and later served from the
\* cache by the other
C3_Witness ==
    \E j \in 1..Len(events) :
        \E k \in Earlier(j) :
            /\ ~events[k].hit
            /\ events[j].hit
            /\ events[k].by # events[j].by
            /\ events[k].doc = events[j].doc
            /\ k <= events[j].checked

\* batch n raised an exception
Failed(n) == \E k \in 1..Len(faults) : faults[k].by = "pipe" /\ faults[k].n = n

\* the generator is through with batch n
Completed(n) == n < Len(batches) \/ pc \in {"fetch", "done", "raised"}

\* the positions of the input that batch n's emitted documents came from
EmittedOf(n) ==
    LET sel == SelectSeq(events, LAMBDA e : e.by = "pipe" /\ e.n = n)
    IN  [k \in 1..Len(sel) |-> sel[k].idx]

\* C4: the handler is called once per failed batch, with the component's name,
\* the component, the whole batch and the raised exception; when it returns,
\* the stream goes on: every batch that did not fail is emitted whole and in
\* order, before and after the failed one, and the whole input is consumed.
C4_BatchIsolation ==
    /\ \A h, g \in 1..Len(handlerLog) : handlerLog[h].n = handlerLog[g].n => h = g
    /\ \A h \in 1..Len(handlerLog) :
        LET c == handlerLog[h]
        IN  /\ c.name = Name
            /\ c.component = Self
            /\ c.batch = batches[c.n].docs
            /\ \E k \in 1..Len(faults) :
                faults[k].by = "pipe" /\ faults[k].n = c.n /\ faults[k].exc = c.exc
    /\ \A n \in 1..Len(batches) :
        (Completed(n) /\ ~Failed(n)) =>
            EmittedOf(n) = [k \in 1..Len(batches[n].docs) |-> batches[n].first + k]
    /\ LET out == Out
       IN  \A k \in 1..Len(out) :
            /\ out[k].doc.fp = input[out[k].idx]
            /\ k > 1 => out[k - 1].idx < out[k].idx
    /\ (\A h \in 1..Len(handlerLog) : handlerLog[h].decision = "suppress") =>
        /\ pc = "raised" => \E k \in 1..Len(faults) : faults[k].step = "contains_raises"
        /\ pc = "done" => pos = Len(input) /\ SumLen([n \in 1..Len(batches) |-> batches[n].docs]) = Len(input)

\* three batches, the middle one failed and handled, the first and the third
\* emitted
C4_Witness ==
    /\ pc = "done"
    /\ Len(batches) = 3
    /\ Failed(2) /\ ~Failed(1) /\ ~Failed(3)
    /\ Len(handlerLog) = 1
    /\ handlerLog[1].n = 2
    /\ Len(Out) = 2
    /\ Out[1].n = 1 /\ Out[2].n = 3

HandledWith(n, exc) ==
    \E h \in 1..Len(handlerLog) : handlerLog[h].n = n /\ handlerLog[h].exc = exc

\* C5: every exception raised in a batch, that of the partition's cache
\* membership test (step 1) included, is handed to the error handler and
\* does not leave the generator by itself.
C5_AllStepsCaught ==
    \A k \in 1..Len(faults) :
        faults[k].by = "pipe" => HandledWith(faults[k].n, faults[k].exc)

\* What the try of line 146 covers: an exception raised by generate_prompts,
\* the executor, parse_responses or the re-walk (steps 3 to 6) is handed to
\* the error handler and leaves the generator only if the handler re-raises;
\* an exception of the partition's membership test (line 142) leaves the
\* generator and the handler is not called for that batch.
PipeCaughtInsideTry ==
    /\ \A k \in 1..Len(faults) :
        faults[k].by = "pipe" =>
            IF faults[k].step = "contains_raises"
            THEN /\ \A h \in 1..Len(handlerLog) : handlerLog[h].n # faults[k].n
                 /\ pc = "raised"
                 /\ escaped = faults[k].exc
            ELSE /\ faults[k].step \in {"gen_raises", "backend_raises", "parse_raises",
                                        "lookup", "next", "add"}
                 /\ HandledWith(faults[k].n, faults[k].exc)
    /\ (pc = "raised") <=> (escaped # "")
    /\ pc = "raised" =>
        \/ \E k \in 1..Len(faults) : faults[k].by = "pipe" /\ faults[k].step = "contains_raises"
        \/ \E h \in 1..Len(handlerLog) :
            handlerLog[h].decision = "reraise" /\ handlerLog[h].exc = escaped

\* C6: no document of a batch the error handler was called for is emitted.
C6_FailedBatchNotEmitted ==
    \A h \in 1..Len(handlerLog) :
        \A k \in 1..Len(Out) : Out[k].n # handlerLog[h].n

\* the task and executor invocations of the last single-document call
RetLog == SubSeq(log, ret.logFrom + 1, ret.logTo)

RetEvents == {k \in 1..Len(events) : events[k].by = "call" /\ events[k].n = ret.n}

\* C7: a single-document call on a cached document returns the cache's entry
\* and invokes nothing and changes nothing; on a document not cached, when it
\* returns, generate_prompts, the executor and parse_responses were invoked
\* once each on the singleton batch, and the parsed document was inserted
\* once and is the one returned.
C7_CallContract ==
    ret.kind # "none" =>
        IF ret.cacheBefore[ret.fp] # NoneDoc
        THEN /\ ret.kind = "returned"
             /\ ret.doc = ret.cacheBefore[ret.fp]
             /\ RetLog = <<>>
             /\ ret.cacheAfter = ret.cacheBefore
             /\ ret.addsTo = ret.addsFrom
        ELSE ret.kind = "returned" =>
             /\ Len(RetLog) = 3
             /\ \A k \in 1..3 : RetLog[k].by = "call" /\ RetLog[k].n = ret.n /\ RetLog[k].ok
             /\ RetLog[1].op = "generate_prompts" /\ RetLog[1].docs = <<ret.fp>>
             /\ RetLog[2].op = "backend" /\ RetLog[2].arg = RetLog[1].res
             /\ Len(RetLog[2].arg) = 1
             /\ RetLog[3].op = "parse_responses" /\ RetLog[3].docs = <<ret.fp>>
             /\ RetLog[3].arg = RetLog[2].res
             /\ ret.doc = RetLog[3].res[1]
             /\ ret.doc.fp = ret.fp
             /\ ret.addsTo = ret.addsFrom + 1
             /\ adds[ret.addsTo].doc = ret.doc
             /\ ret.cacheAfter = [ret.cacheBefore EXCEPT ![ret.fp] = ret.doc]

\* a call that missed, ran task and executor and returned the inserted document
C7_Witness ==
    /\ ret.kind = "returned"
    /\ ret.cacheBefore[ret.fp] = NoneDoc
    /\ ret.cacheAfter[ret.fp] = ret.doc
    /\ Len(RetLog) = 3

\* C8: when parse_responses yields no document or more than one, the
\* single-document call fails with an assertion error, returns no document
\* and leaves the cache as it was.
C8_CardinalityAssertion ==
    (/\ ret.kind # "none"
     /\ RetLog # <<>>
     /\ RetLog[Len(RetLog)].op = "parse_responses"
     /\ RetLog[Len(RetLog)].ok
     /\ Len(RetLog[Len(RetLog)].res) # 1) =>
        /\ ret.kind = "raised"
        /\ ret.exc = "AssertionError"
        /\ ret.doc = NoneDoc
        /\ RetEvents = {}
        /\ ret.cacheAfter = ret.cacheBefore
        /\ ret.addsTo = ret.addsFrom

\* parse_responses yielded two documents and the call raised
C8_Witness ==
    /\ ret.kind = "raised"
    /\ RetLog # <<>>
    /\ RetLog[Len(RetLog)].op = "parse_responses"
    /\ Len(RetLog[Len(RetLog)].res) = 2

\* C9: an exception of generate_prompts, the executor or parse_responses in a
\* single-document call reaches the caller; the error handler is not invoked,
\* nothing is invoked a second time and the cache is as before the call.
C9_CallExceptionDirect ==
    (ret.kind # "none" /\ \E k \in 1..Len(RetLog) : ~RetLog[k].ok) =>
        /\ ret.kind = "raised"
        /\ ret.exc \in {"TaskError", "BackendError", "ParseError"}
        /\ \E k \in 1..Len(faults) :
            faults[k].by = "call" /\ faults[k].n = ret.n /\ faults[k].exc = ret.exc
        /\ RetEvents = {}
        /\ ret.handlerTo = ret.handlerFrom
        /\ \A h \in 1..Len(handlerLog) : Failed(handlerLog[h].n)
        /\ \A j, k \in 1..Len(RetLog) : RetLog[j].op = RetLog[k].op => j = k
        /\ ~RetLog[Len(RetLog)].ok
        /\ ret.cacheAfter = ret.cacheBefore
        /\ ret.addsTo = ret.addsFrom

\* the executor raised in a call made while the streaming call was suspended
C9_Witness ==
    /\ ret.kind = "raised"
    /\ ret.exc = "BackendError"
    /\ Len(RetLog) = 2
    /\ Len(Out) >= 1

\* C10: with save_io set, every freshly processed document, from the
\* single-document call as from the streaming call, is handed out with a
\* record of a string prompt and a string response.
C10_FreshCarriesRecord ==
    save_io =>
        \A k \in 1..Len(events) :
            ~events[k].hit =>
                /\ Len(events[k].doc.io) = 1
                /\ events[k].doc.io[1].prompt.type = "str"
                /\ events[k].doc.io[1].response.type = "str"

\* the last insert made for fingerprint d, 0 if none was made
LastAdd(d) ==
    LET S == {k \in 1..Len(adds) : adds[k].doc.fp = d}
    IN  IF S = {} THEN 0 ELSE CHOOSE k \in S : \A q \in S : q <= k

\* C11: the component writes a prompt/response record only into a document
\* it freshly processed in the streaming call and only when save_io is set:
\* with save_io unset no document it parses, inserts or emits as a miss has
\* a record; the cache's entry is what was last inserted (or what it held at
\* the start), record included, and a document handed out on a hit is that
\* entry unchanged, whatever save_io is at the time of the hit.
C11_RecordOnlyOnFreshWhenEnabled ==
    /\ \A k \in 1..Len(adds) :
        adds[k].doc.io # <<>> => (save_io /\ adds[k].by = "pipe")
    /\ \A k \in 1..Len(events) :
        (~events[k].hit /\ events[k].doc.io # <<>>) => (save_io /\ events[k].by = "pipe")
    /\ \A d \in Docs :
        IF LastAdd(d) = 0
        THEN cache[d] \in {NoneDoc, PriorDoc(d), PriorDocIO(d)}
        ELSE cache[d] = adds[LastAdd(d)].doc
    /\ (events # <<>> /\ events[Len(events)].hit) =>
        events[Len(events)].doc = cache[events[Len(events)].fp]

\* with save_io set the streaming call hands out, on a hit, a document a
\* single-document call inserted without a record and, on a miss, a document
\* with the record it has just written
C11_Witness ==
    /\ save_io
    /\ \E k \in 1..Len(events) :
        /\ IsPipe(events[k]) /\ events[k].hit /\ events[k].doc.io = <<>>
        /\ \E a \in 1..Len(adds) : adds[a].by = "call" /\ adds[a].doc = events[k].doc
    /\ \E k \in 1..Len(events) :
        IsPipe(events[k]) /\ ~events[k].hit /\ events[k].doc.io # <<>>

\* a document without its llm_io record
Strip(doc) == [doc EXCEPT !.io = <<>>]

\* the fingerprints c has an entry for
Keys(c) == {d \in Docs : c[d] # NoneDoc}

\* C12: the run with save_io set goes as the run with save_io unset went, on
\* the same stream, batch size, initial cache and collaborators: the same
\* batches with the same hit/miss flags, the same invocations of task and
\* executor with the same arguments, the same inserts under the same keys
\* and the same documents handed out in the same order, llm_io record apart;
\* when it is over it has ended the same way with the same cache keys.
C12_SaveIOKeepsCaching ==
    first.on =>
        /\ Len(batches) <= Len(first.batches)
        /\ \A n \in 1..Len(batches) :
            /\ batches[n].docs = first.batches[n].docs
            /\ batches[n].snap = first.batches[n].snap
        /\ pc \in {"walk", "yielded"} =>
            is_cached = [k \in 1..Len(doc_batch) |->
                            doc_batch[k] \in first.batches[Len(batches)].snap]
        /\ Len(log) <= Len(first.log)
        /\ \A k \in 1..Len(log) : log[k] = first.log[k]
        /\ Len(adds) <= Len(first.adds)
        /\ \A k \in 1..Len(adds) :
            /\ adds[k].doc.fp = first.adds[k].doc.fp
            /\ Strip(adds[k].doc) = Strip(first.adds[k].doc)
            /\ adds[k].n = first.adds[k].n
        /\ Len(events) <= Len(first.events)
        /\ \A k \in 1..Len(events) :
            /\ events[k].idx = first.events[k].idx
            /\ events[k].hit = first.events[k].hit
            /\ Strip(events[k].doc) = Strip(first.events[k].doc)
        /\ pc \in {"done", "raised"} =>
            /\ pc = first.pc
            /\ escaped = first.escaped
            /\ Len(batches) = Len(first.batches)
            /\ Len(log) = Len(first.log)
            /\ Len(adds) = Len(first.adds)
            /\ Len(events) = Len(first.events)
            /\ handlerLog = first.handlerLog
            /\ Keys(cache) = Keys(first.cache)
            /\ \A d \in Docs : Strip(cache[d]) = Strip(first.cache[d])

\* the second run is never held up: whatever the first run did, the second
\* can follow it to its end
TwinGoesOn == (first.on /\ pc \notin {"done", "raised"}) => ENABLED NextTwin

\* both runs are over; they had a hit and two misses, and the second run
\* wrote records the first did not
C12_Witness ==
    /\ first.on
    /\ pc = "done"
    /\ Len(events) = 3
    /\ \E k \in 1..3 : events[k].hit
    /\ \E k \in 1..3 : ~events[k].hit /\ events[k].doc # first.events[k].doc
    /\ Len(adds) = 2

\* C13: when the error handler re-raises for a batch, the exception leaves
\* the generator and the streaming call is over: that batch is the last one
\* pulled from the input, and nothing of a later batch is sent to the task
\* or the executor, inserted or handed out; when the handler returns, its
\* exception does not reach the consumer.
C13_ReraiseAborts ==
    /\ \A h \in 1..Len(handlerLog) :
        LET c == handlerLog[h]
        IN  IF c.decision = "reraise"
            THEN /\ h = Len(handlerLog)
                 /\ pc = "raised"
                 /\ escaped = c.exc
                 /\ Len(batches) = c.n
                 /\ pos = batches[c.n].first + Len(batches[c.n].docs)
                 /\ \A k \in 1..Len(log) : log[k].by = "pipe" => log[k].n <= c.n
                 /\ \A k \in 1..Len(adds) : adds[k].by = "pipe" => adds[k].n <= c.n
                 /\ \A k \in 1..Len(events) : events[k].by = "pipe" => events[k].n <= c.n
            ELSE escaped # "" =>
                    \/ \E k \in 1..Len(faults) : faults[k].step = "contains_raises"
                    \/ handlerLog[Len(handlerLog)].decision = "reraise"
    /\ (handlerLog # <<>> /\ handlerLog[Len(handlerLog)].decision = "suppress"
        /\ \A k \in 1..Len(faults) : faults[k].step # "contains_raises") =>
            /\ escaped = ""
            /\ pc # "raised"

\* the handler re-raised for the first batch, after one document of it was
\* handed out, with input left
C13_Witness ==
    /\ pc = "raised"
    /\ Len(handlerLog) = 1
    /\ handlerLog[1].decision = "reraise"
    /\ handlerLog[1].n = 1
    /\ pos < Len(input)
    /\ Len(events) = 1
    /\ events[1].by = "pipe"

\* C14: make_llm called without a task raises ValueError and gives no
\* component; as long as there is no component nothing is processed: no cache
\* lookup or insert, no invocation of task or executor, no document handed
\* out.
C14_NoTaskNoComponent ==
    /\ task = "None" => component \in {"unbuilt", "ValueError"}
    /\ component # Self =>
        /\ pc = "created"
        /\ pos = 0
        /\ ncalls = 0
        /\ ret = NoRet
        /\ batches = <<>>
        /\ log = <<>>
        /\ adds = <<>>
        /\ events = <<>>
        /\ faults = <<>>
        /\ handlerLog = <<>>

\* make_llm was called without a task and raised
C14_Witness ==
    /\ task = "None"
    /\ component = "ValueError"

\* C15: a call of to_bytes, from_bytes, to_disk or from_disk, made at any
\* point of the processing, changes nothing of the component (task, save_io,
\* cache) nor of the processing under way; to_bytes returns the empty byte
\* string, to_disk returns None, and from_bytes and from_disk return the
\* component itself whatever they are given.
C15_SerializationNoOp ==
    /\ [](/\ ser.op = "to_bytes" => ser.ret = <<>>
          /\ ser.op = "to_disk" => ser.ret = <<"None">>
          /\ ser.op \in {"from_bytes", "from_disk"} => ser.ret = <<Self>>)
    /\ [][ser' # ser => UNCHANGED <<task, component, processing>>]_vars

\* from_bytes was called with a non-empty byte string after a streaming call
\* that inserted documents
C15_Witness ==
    /\ ser.op = "from_bytes"
    /\ ser.arg # <<>>
    /\ pc = "done"
    /\ Len(adds) >= 2
    /\ cache # [d \in Docs |-> NoneDoc]

\* C16: a freshly parsed document is inserted before it is handed out, by
\* the streaming call as by the single-document call: every document handed
\* out has an entry in the cache, a fresh one was inserted as it is, an
\* insert that raises hands nothing out, and no step removes a cache entry.
C16_InsertBeforeEmit ==
    /\ [](/\ \A k \in 1..Len(events) :
              /\ cache[events[k].fp] # NoneDoc
              /\ ~events[k].hit =>
                    \E a \in 1..Len(adds) :
                        adds[a].doc = events[k].doc /\ adds[a].by = events[k].by
          /\ Cardinality({k \in 1..Len(events) : ~events[k].hit}) = Len(adds)
          /\ (ret.kind = "raised" /\ ret.exc = "CacheError") =>
                (RetEvents = {} /\ ret.cacheAfter = ret.cacheBefore))
    /\ [][\A d \in Docs : cache[d] # NoneDoc => cache'[d] # NoneDoc]_vars

\* an insert of the streaming call raised, the handler returned, and the
\* stream went on to hand out a fresh document of a later batch
C16_Witness ==
    /\ pc = "done"
    /\ \E k \in 1..Len(faults) : faults[k].by = "pipe" /\ faults[k].step = "add"
    /\ \E k \in 1..Len(events) : events[k].by = "pipe" /\ ~events[k].hit

\* C17: with save_io set, the record of a document the streaming call
\* processed freshly holds, as strings, the prompt generate_prompts produced
\* and the response the executor returned at that document's rank among the
\* cache misses of its batch, which are its own prompt and the response its
\* annotation was parsed from, wherever the batch's hits lie.
C17_RecordAligned ==
    save_io =>
        \A k \in 1..Len(events) :
            LET e == events[k]
            IN  (e.by = "pipe" /\ ~e.hit) =>
                    LET r == MissRank(e.n, e.idx)
                    IN  /\ Cardinality(Entries("generate_prompts", e.n)) = 1
                        /\ Cardinality(Entries("backend", e.n)) = 1
                        /\ \A g \in Entries("generate_prompts", e.n) :
                           \A b \in Entries("backend", e.n) :
                            /\ r \in 1..Len(log[g].res)
                            /\ r \in 1..Len(log[b].res)
                            /\ e.doc.io = <<[prompt |-> Str(log[g].res[r]),
                                             response |-> Str(log[b].res[r])]>>
                            /\ log[g].res[r] = GeneratePrompts(<<e.fp>>)[1]
                            /\ e.doc.ann = <<log[b].res[r].val>>

\* a batch of a miss, a hit and a miss, handed out with the records written
C17_Witness ==
    /\ save_io
    /\ \E k \in 1..(Len(events) - 2) :
        /\ \A j \in k..(k + 2) : events[j].by = "pipe" /\ events[j].n = events[k].n
        /\ ~events[k].hit /\ events[k + 1].hit /\ ~events[k + 2].hit
        /\ events[k].doc.io # <<>> /\ events[k + 2].doc.io # <<>>
        /\ events[k].doc.io # events[k + 2].doc.io

\* the pipe entries of the history h
PipeEntries(h) == SelectSeq(h, IsPipe)

\* C18: the streaming call pulls its input in consecutive batches of at most
\* batch_size documents and only as far as the consumer's pulls need: nothing
\* is pulled before the first pull, every document handed out of a batch
\* precedes the pull of the next batch, a suspended generator is in the batch
\* of the document it handed out last, and a step pulls input or invokes task
\* or executor for the stream only when it starts a new batch, the batch
\* before being walked through or failed; a single-document call made by a
\* consumer that has stopped pulling consumes no input.
C18_LazyBatchAtATime ==
    /\ [](/\ pos = SumLen([n \in 1..Len(batches) |-> batches[n].docs])
          /\ pos <= Len(input)
          /\ \A n \in 1..Len(batches) :
              /\ Len(batches[n].docs) \in 1..batch_size
              /\ batches[n].first = SumLen([m \in 1..(n - 1) |-> batches[m].docs])
              /\ batches[n].docs = SubSeq(input, batches[n].first + 1,
                                          batches[n].first + Len(batches[n].docs))
              /\ (Len(batches[n].docs) < batch_size) =>
                    batches[n].first + Len(batches[n].docs) = Len(input)
          /\ pc = "created" => (pos = 0 /\ batches = <<>> /\ PipeEntries(log) = <<>>)
          /\ \A k \in 1..Len(events) :
              events[k].by = "pipe" =>
                  /\ k > batches[events[k].n].seen
                  /\ events[k].n < Len(batches) => k <= batches[events[k].n + 1].seen
          /\ \A k \in 1..Len(log) : log[k].by = "pipe" => log[k].n <= Len(batches)
          /\ pc = "yielded" =>
              /\ Out # <<>>
              /\ Out[Len(Out)].n = Len(batches)
              /\ Out[Len(Out)].idx <= pos
              /\ pos - Out[Len(Out)].idx < batch_size)
    /\ [][(pos' # pos \/ PipeEntries(log') # PipeEntries(log)) =>
            /\ pc \in {"created", "fetch"}
            /\ Len(batches') = Len(batches) + 1
            /\ batches'[Len(batches')].seen = Len(events)
            /\ events' = events
            /\ ncalls' = ncalls
            /\ \A k \in 1..Len(log') :
                (k > Len(log) /\ log'[k].by = "pipe") => log'[k].n = Len(batches')
            /\ batches # <<>> =>
                \/ Failed(Len(batches))
                \/ EmittedOf(Len(batches)) =
                     [k \in 1..Len(batches[Len(batches)].docs) |->
                         batches[Len(batches)].first + k]]_vars
    /\ [][ncalls' # ncalls => (pos' = pos /\ batches' = batches /\ pc' = pc)]_vars

\* the consumer took one document of a stream of two batches and then made a
\* single-document call: the second batch has not been pulled
C18_Witness ==
    /\ pc = "yielded"
    /\ Len(batches) = 1
    /\ pos < Len(input)
    /\ Len(events) = 2
    /\ events[1].by = "pipe"
    /\ events[2].by = "call"
    /\ ncalls = 1

\* the pipe events of batch n
EventsOf(n) == {k \in 1..Len(events) : events[k].by = "pipe" /\ events[k].n = n}

\* C19: within a batch the hit/miss flags are those of the partition: a
\* document is handed out as a hit exactly when it was in the cache at the
\* partition, the flags do not change during the re-walk whatever is
\* inserted meanwhile, the parsed results left are those of the miss-flagged
\* documents still to come, and no hit lookup fails its assertion; the step
\* that partitions inserts nothing, and the streaming call's inserts for a
\* batch are made in its re-walk, one per miss handed out.
C19_ConsistentViewInBatch ==
    /\ [](/\ \A k \in 1..Len(events) :
              events[k].by = "pipe" =>
                  (events[k].hit <=> events[k].fp \in batches[events[k].n].snap)
          /\ pc \in {"walk", "yielded"} =>
              LET b == batches[Len(batches)]
                  rest == SubSeq(doc_batch, i + 1, Len(doc_batch))
              IN  /\ doc_batch = b.docs
                  /\ is_cached = [k \in 1..Len(doc_batch) |-> doc_batch[k] \in b.snap]
                  /\ [k \in 1..Len(modified_docs) |-> modified_docs[k].fp]
                        = MissSeq(rest, b.snap)
                  /\ \A k \in 1..Len(doc_batch) :
                        is_cached[k] => cache[doc_batch[k]] # NoneDoc
          /\ \A k \in 1..Len(faults) :
              faults[k].by = "pipe" => faults[k].exc \notin {"AssertionError", "StopIteration"}
          /\ \A n \in 1..Len(batches) :
              Cardinality({a \in 1..Len(adds) : adds[a].by = "pipe" /\ adds[a].n = n})
                = Cardinality({k \in EventsOf(n) : ~events[k].hit}))
    /\ [][(pc \in {"walk", "yielded"} /\ pc' \in {"walk", "yielded"}) =>
            (is_cached' = is_cached /\ doc_batch' = doc_batch)]_vars
    /\ [][batches' # batches => (cache' = cache /\ adds' = adds)]_vars

\* the same uncached document twice in a batch: the first was inserted in the
\* re-walk and the second was still processed as a miss
C19_Witness ==
    \E k \in 1..(Len(events) - 1) :
        /\ events[k].by = "pipe" /\ events[k + 1].by = "pipe"
        /\ events[k].n = events[k + 1].n
        /\ events[k].fp = events[k + 1].fp
        /\ ~events[k].hit /\ ~events[k + 1].hit
        /\ events[k].doc # events[k + 1].doc

\* the rank of the idx-th input document among the misses of its batch b
RankIn(b, idx) == Cardinality({q \in 1..(idx - b.first) : b.docs[q] \notin b.snap})

\* what generator g, whose collaborators raised nothing, has handed out: one
\* document per input document so far, in input order, a hit when the
\* document was in the cache at its batch's partition and else the document
\* parsed from the response to its own prompt in g's invocation for the batch
GenInOrder(g) ==
    LET out == SelectSeq(g.events, IsPipe)
    IN  /\ Len(out) <= Len(g.input)
        /\ g.pc = "done" => Len(out) = Len(g.input)
        /\ g.pc = "yielded" => out # <<>>
        /\ \A k \in 1..Len(out) :
            LET e == out[k]
                b == g.batches[e.n]
                r == RankIn(b, k)
                B == {j \in 1..Len(g.log) : /\ g.log[j].by = "pipe"
                                            /\ g.log[j].op = "backend"
                                            /\ g.log[j].n = e.n}
            IN  /\ e.idx = k
                /\ e.fp = g.input[k]
                /\ e.doc.fp = g.input[k]
                /\ e.hit <=> g.input[k] \in b.snap
                /\ cache[e.fp] # NoneDoc
                /\ cache[e.fp].fp = e.fp
                /\ ~e.hit =>
                    /\ Cardinality(B) = 1
                    /\ \A j \in B :
                        /\ g.log[j].arg[r] = GeneratePrompts(<<g.input[k]>>)[1]
                        /\ e.doc.ann = <<g.log[j].res[r].val>>

\* C20: with two streaming calls on the same component pulled alternately,
\* and single-document calls made in between, each streaming call hands out
\* one document per input document in input order, no step of it fails (no
\* hit lookup without a document, no parsed result missing), it ends when its
\* input is used up, and every document handed out has a cache entry; a
\* document is treated as its batch's partition flagged it, so a miss is
\* executed even when the document has been inserted meanwhile.
C20_InterleavingSafe ==
    /\ GenInOrder(Frame)
    /\ other # NoOther => GenInOrder(other)
    /\ faults = <<>>
    /\ other.faults = <<>>
    /\ pc # "raised"
    /\ other.pc # "raised"
    /\ escaped = ""
    /\ \A k \in 1..Len(events) : cache[events[k].fp] # NoneDoc
    /\ \A k \in 1..Len(other.events) : cache[other.events[k].fp] # NoneDoc

\* both streaming calls are over; the one that ended last had flagged a
\* document as a miss and executed it after the other streaming call, pulled
\* in between, had inserted that document
C20_Witness ==
    /\ pc = "done"
    /\ other.pc = "done"
    /\ \E k \in 1..Len(events), j \in 1..Len(other.events) :
        /\ events[k].by = "pipe" /\ ~events[k].hit
        /\ other.events[j].by = "pipe" /\ ~other.events[j].hit
        /\ other.events[j].fp = events[k].fp
        /\ \E a, c \in 1..Len(adds) :
            /\ a < c
            /\ adds[a].doc = other.events[j].doc
            /\ adds[c].doc = events[k].doc
        /\ cache[events[k].fp] = events[k].doc
====
